---- MODULE Spec2Model ----
(***************************************************************************)
(* Delay-prediction service: DataLoader (data_loader.py), DelayPredictor   *)
(* (delay_predictor.py), AnalysisRunner (analysis_runner.py) and the Flask *)
(* facade PythonAnalysisAPI (api_integration.py).                          *)
(*                                                                         *)
(* Numbers that the source writes with one decimal (progress_ratio 0.5)    *)
(* are kept in tenths: Tenths(24) is 24.0 and the literal 5 is 0.5.        *)
(* A fitted sklearn object is the record [run, cols]: the training run     *)
(* that fitted it last (0: never fitted) and the feature list it was       *)
(* fitted on.  The state modelled is the one after the constructors have   *)
(* returned.                                                               *)
(***************************************************************************)
EXTENDS Integers, Sequences, FiniteSets, TLC

(* ------------------------------ bounds --------------------------------- *)

\* training runs that reach the fit stage in one behaviour
MaxRuns == 2
\* largest number of task rows a database answers with
MaxDbRows == 11
\* largest raw output of the fitted regressor, in days (the smallest is -1)
MaxRawDelay == 7
\* keys a request body carries (besides the empty object and no body)
MaxBodyKeys == 1
\* values a request body gives to a key, 1..MaxBodyValue (in tenths)
MaxBodyValue == 1

\* largest delay_days of a row handed to create_delay_labels
MaxDelayDays == 10
\* latest timestamp of a task and of the clock, in half days
MaxHalfDays == 6
\* rows of a tasks table handed to analyze_project_risks
MaxTasks == 2
MaxHourTenths == 24

(* ------------------------------ config.py ------------------------------ *)

PREDICTION_FEATURES ==
    << "estimated_hours", "progress_ratio", "dependency_count", "team_size",
       "priority_numeric", "domain_complexity_score",
       "assignee_experience_score", "project_complexity_score",
       "task_complexity_score", "description_length", "title_length",
       "keyword_density", "technical_keywords_count", "sentiment_score",
       "sentiment_magnitude", "urgency_score", "risk_score",
       "historical_performance_score", "team_collaboration_score",
       "resource_availability_score", "time_pressure_score",
       "dependency_complexity", "communication_frequency",
       "change_frequency", "estimation_confidence", "skill_match_score",
       "workload_balance_score", "project_momentum",
       "external_dependency_risk", "technology_stack_familiarity",
       "deadline_proximity", "scope_creep_indicator",
       "quality_gate_requirements" >>

Tenths(x) == 10 * x

\* TRAINING_CONFIG['test_size'] = 0.25, in hundredths
TestSizePercent == 25

\* the literal 10 of "if len(X) < 10"
MinTrainingRows == 10

\* len(task_titles) in _generate_mock_tasks
MockTaskCount == 12

(* ---------------------------- data_loader.py --------------------------- *)

Tables == {"users", "projects", "tasks", "teams", "delay_alerts"}

\* columns of the tasks table after _process_tasks_data (query columns and
\* the derived ones); the mock rows carry the same keys
ProcessedTaskColumns ==
    { "id", "title", "description", "status", "priority", "assignee_id",
      "project_id", "domain", "estimated_hours", "actual_hours",
      "start_date", "due_date", "completed_date", "dependencies",
      "delay_reason", "created_at",
      "planned_duration", "days_to_deadline", "is_overdue",
      "actual_duration", "delay_days", "priority_numeric", "status_numeric",
      "dependency_count", "progress_ratio" }

\* connect_to_database: any exception leaves engine = None
connect_to_database(connFails) == IF connFails THEN "None" ELSE "engine"

\* _generate_mock_<table>.  The mock tasks draw actual_hours as None with
\* probability 0.3 each; when all twelve are None the column holds None
\* objects and the division in _process_tasks_data raises TypeError.
generate_mock(t, noHours) ==
    IF t = "tasks" /\ noHours THEN "raised" ELSE "mock"

\* load_<table>_data: the mock table when there is no engine or when the
\* query (or its processing) raises, the database table otherwise
load_table(engine, t, failed, noHours) ==
    IF engine = "None" THEN generate_mock(t, noHours)
    ELSE IF t \in failed THEN generate_mock(t, noHours)
    ELSE "db"

\* a loader let an exception out: the call returned no dict
Raised(dataset) == \E t \in Tables : dataset.src[t] = "raised"

\* get_comprehensive_dataset: the five tables, each loaded on its own.
\* rows is len(tasks); task_cols the columns of the tasks table.
get_comprehensive_dataset(engine, failed, dbRows, noHours) ==
    LET src == [t \in Tables |-> load_table(engine, t, failed, noHours)]
    IN  IF \E t \in Tables : src[t] = "raised"
        THEN [ loaded |-> FALSE, src |-> src, rows |-> 0, task_cols |-> {} ]
        ELSE [ loaded    |-> TRUE,
               src       |-> src,
               rows      |-> IF src["tasks"] = "mock" THEN MockTaskCount
                             ELSE dbRows,
               task_cols |-> ProcessedTaskColumns ]

\* a missing cell: NaN in a numeric column, NaT in a timestamp column; a
\* number that no date, difference of dates or delay of the model equals
NaN == -999

\* Series.fillna(value)
fillna(x, value) == IF x = NaN THEN value ELSE x

\* (a - b).dt.days for timestamps counted in half days: the whole days of
\* the difference, rounded down, and NaN when either side is NaT
dt_days(a, b) == IF a = NaN \/ b = NaN THEN NaN ELSE (a - b) \div 2

\* np.maximum(0, x): NaN stays NaN
np_maximum0(x) == IF x = NaN THEN NaN ELSE IF x > 0 THEN x ELSE 0

\* the delay_days column of _process_tasks_data
task_delay_days(completed_date, due_date, now) ==
    IF completed_date # NaN
    THEN np_maximum0(dt_days(completed_date, due_date))
    ELSE np_maximum0(dt_days(now, due_date))

\* the progress_ratio column of _process_tasks_data, ratio and hours in
\* tenths: min(actual_hours / max(estimated_hours, 1), 2.0).  Python's max
\* and min keep a NaN first argument, and NaN / x is NaN.
task_progress_ratio(actual_hours, estimated_hours) ==
    IF actual_hours = NaN \/ estimated_hours = NaN THEN NaN
    ELSE LET divisor == IF estimated_hours > Tenths(1) THEN estimated_hours
                        ELSE Tenths(1)
             ratio   == (actual_hours * 10) \div divisor
         IN  IF ratio < Tenths(2) THEN ratio ELSE Tenths(2)

\* AnalysisRunner.__init__: self.data = {}
NoData ==
    [ loaded    |-> FALSE,
      src       |-> [t \in Tables |-> "none"],
      rows      |-> 0,
      task_cols |-> {} ]

(* -------------------------- delay_predictor.py ------------------------- *)

RECURSIVE SumSeq(_)
SumSeq(s) == IF s = << >> THEN 0 ELSE Head(s) + SumSeq(Tail(s))

\* Op(v) with v computed once: a bound variable holds a value, where a
\* LET definition or a parameter is computed again at every use
With(v, Op(_)) == CHOOSE r \in { Op(x) : x \in {v} } : TRUE

Min2(a, b) == IF a < b THEN a ELSE b
Max2(a, b) == IF a > b THEN a ELSE b

\* a StandardScaler / RandomForest object that was never fitted
Unfitted == [run |-> 0, cols |-> << >>]

\* X.fit(...) of training run `run` on a matrix with the columns `cols`
Fit(run, cols) == [run |-> run, cols |-> cols]

\* DelayPredictor.__init__
NewPredictor ==
    [ is_trained         |-> FALSE,
      feature_columns    |-> << >>,
      scaler             |-> Unfitted,
      duration_predictor |-> Unfitted,
      delay_classifier   |-> Unfitted ]

\* the three left merges of prepare_features: a right-hand column whose name
\* the left table already has gets the suffix, the others keep their name
MergeColumns(left, right, suffix) ==
    UNION { L \cup { IF c \in L THEN c \o suffix ELSE c : c \in right }
            : L \in {left} }

numeric_columns ==
    << "estimated_hours", "progress_ratio", "dependency_count", "team_size",
       "priority_numeric", "domain_complexity_score",
       "assignee_experience_score", "project_complexity_score" >>

\* the value prepare_features gives to a numeric column that is absent
\* from the merged table (the else branch of its fill loop)
PrepareDefault(col) ==
    IF col = "team_size" THEN Tenths(3)
    ELSE IF col = "dependency_count" THEN 0
    ELSE IF col = "progress_ratio" THEN 5
    ELSE Tenths(25)

\* the k-th smallest of a sequence of numbers
Kth(vals, k) ==
    CHOOSE v \in { vals[i] : i \in 1..Len(vals) } :
        /\ Cardinality({ i \in 1..Len(vals) : vals[i] < v }) < k
        /\ k <= Cardinality({ i \in 1..Len(vals) : vals[i] <= v })

\* Series.median(): the median of the cells that are not NaN, and NaN when
\* there is none
median(cells) ==
    LET vals == SelectSeq(cells, LAMBDA x : x # NaN)
        n    == Len(vals)
    IN  IF n = 0 THEN NaN
        ELSE IF n % 2 = 1 THEN Kth(vals, (n + 1) \div 2)
        ELSE (Kth(vals, n \div 2) + Kth(vals, n \div 2 + 1)) \div 2

\* the fill loop of prepare_features on one numeric column: a column of
\* the merged table is filled with its median, an absent one is created
\* with its literal default
fill_numeric_column(col, present, cells) ==
    IF present
    THEN [i \in 1..Len(cells) |-> fillna(cells[i], median(cells))]
    ELSE [i \in 1..Len(cells) |-> PrepareDefault(col)]

\* prepare_features: the columns of the returned table, and for every
\* numeric column how its cells were filled: "median" for a column that was
\* there, the literal default for one that was created
prepare_features(data) ==
    LET m1 == MergeColumns(data.task_cols, {"id", "role_numeric"}, "_assignee")
        m2 == MergeColumns(m1, {"id", "status_numeric", "duration_days",
                                "domain_count"}, "_project")
        m3 == MergeColumns(m2, {"id", "team_size", "skill_count"}, "_team")
        eng == m3 \cup { "assignee_experience_score",
                         "project_complexity_score",
                         "domain_complexity_score" }
    IN  With(eng, LAMBDA cols :
          LET created == { numeric_columns[i] : i \in 1..Len(numeric_columns) }
                            \ cols
          IN  [ columns |-> cols \cup created,
                rows    |-> data.rows,
                created |-> [c \in created |-> PrepareDefault(c)] ])

\* create_delay_labels: three more columns
create_delay_labels(features_df) ==
    [features_df EXCEPT
        !.columns = @ \cup {"delay_category", "is_delayed", "risk_score"}]

DELAY_THRESHOLDS == [minor |-> 1, major |-> 3, critical |-> 7]

\* pd.cut with right = False: intervals closed on the left
delay_category_left_closed(dd) ==
    LET d == fillna(dd, 0)
    IN  IF d < DELAY_THRESHOLDS.minor THEN "no_delay"
        ELSE IF d < DELAY_THRESHOLDS.major THEN "minor_delay"
        ELSE IF d < DELAY_THRESHOLDS.critical THEN "major_delay"
        ELSE "critical_delay"

\* pd.cut with the labels minor_delay and major_delay in each other's place
delay_category_unordered(dd) ==
    LET d == fillna(dd, 0)
    IN  IF d <= DELAY_THRESHOLDS.minor THEN "no_delay"
        ELSE IF d <= DELAY_THRESHOLDS.major THEN "major_delay"
        ELSE IF d <= DELAY_THRESHOLDS.critical THEN "minor_delay"
        ELSE "critical_delay"

\* pd.cut(delay_days.fillna(0), bins = [-inf, 1, 3, 7, inf]): intervals
\* closed on the right
delay_category(dd) ==
    LET d == fillna(dd, 0)
    IN  IF d <= DELAY_THRESHOLDS.minor THEN "no_delay"
        ELSE IF d <= DELAY_THRESHOLDS.major THEN "minor_delay"
        ELSE IF d <= DELAY_THRESHOLDS.critical THEN "major_delay"
        ELSE "critical_delay"

\* the indicator written with >= 0
is_delayed_inclusive(dd) == IF fillna(dd, 0) >= 0 THEN 1 ELSE 0

\* (delay_days.fillna(0) > 0).astype(int)
is_delayed(dd) == IF fillna(dd, 0) > 0 THEN 1 ELSE 0

\* np.clip(x, lo, hi)
np_clip(x, lo, hi) == IF x < lo THEN lo ELSE IF x > hi THEN hi ELSE x

\* the risk_score column without np.clip
label_risk_score_unclipped(dd, priority_numeric, progress_ratio) ==
    Tenths(fillna(dd, 0) * 10) + Tenths(priority_numeric * 15)
      + (Tenths(100) - progress_ratio * 50)

\* the risk_score column of create_delay_labels, in tenths; progress_ratio
\* is in tenths too
label_risk_score(dd, priority_numeric, progress_ratio) ==
    np_clip(Tenths(fillna(dd, 0) * 10) + Tenths(priority_numeric * 15)
              + (Tenths(100) - progress_ratio * 50),
            0, Tenths(100))

\* create_delay_labels on one row of the feature table
label_row(row) ==
    [ project_id       |-> row.project_id,
      delay_days       |-> row.delay_days,
      priority_numeric |-> row.priority_numeric,
      progress_ratio   |-> row.progress_ratio,
      delay_category   |-> delay_category(row.delay_days),
      is_delayed       |-> is_delayed(row.delay_days),
      risk_score       |-> label_risk_score(row.delay_days,
                                            row.priority_numeric,
                                            row.progress_ratio) ]

\* create_delay_labels on the rows of a feature table
label_rows(rows) == [i \in 1..Len(rows) |-> label_row(rows[i])]

\* train_test_split(test_size = 0.25): ceil for the test part, floor for
\* the training part
TestSamples(n)  == (n * TestSizePercent + 99) \div 100
TrainSamples(n) == (n * (100 - TestSizePercent)) \div 100

ErrorResult(msg) == [kind |-> "error", error |-> msg]

\* a regressor fit that is left out
FitRegressorSkipped(p, run, cols) == p

\* the writes of train_models to the predictor, in the order of the source:
\* self.feature_columns = ..., self.scaler.fit_transform(...),
\* self.duration_predictor.fit(...), self.delay_classifier.fit(...),
\* self.is_trained = True
AssignFeatureColumns(p, cols) == [p EXCEPT !.feature_columns = cols]
FitScaler(p, run, cols)       == [p EXCEPT !.scaler = Fit(run, cols)]
FitRegressor(p, run, cols)    == [p EXCEPT !.duration_predictor = Fit(run, cols)]
FitClassifier(p, run, cols)   == [p EXCEPT !.delay_classifier = Fit(run, cols)]
SetTrained(p)                 == [p EXCEPT !.is_trained = TRUE]

\* the threshold written as "if len(X) <= 10"
TooFewRowsInclusive(n) == n <= MinTrainingRows

\* "if len(X) < 10"
TooFewRows(n) == n < MinTrainingRows

\* lines 111-115 of train_models: the feature list of the engineered table
AvailableFeatures(data) ==
    With(create_delay_labels(prepare_features(data)), LAMBDA features_df :
      SelectSeq(PREDICTION_FEATURES, LAMBDA col : col \in features_df.columns))

\* train_models, as training run number `run`: the predictor afterwards
\* and the dict returned
train_models(p, data, run) ==
    With(create_delay_labels(prepare_features(data)), LAMBDA features_df :
    With(AvailableFeatures(data), LAMBDA available_features :
      LET p1 == AssignFeatureColumns(p, available_features)
      IN  IF available_features = << >>
          THEN [p |-> p1, result |-> ErrorResult("No valid features available")]
          ELSE IF TooFewRows(features_df.rows)
          THEN [p |-> p1, result |-> ErrorResult("Insufficient training data")]
          ELSE
            LET p2 == FitScaler(p1, run, available_features)
                p3 == FitRegressor(p2, run, available_features)
                p4 == FitClassifier(p3, run, available_features)
                p5 == SetTrained(p4)
            IN  [ p      |-> p5,
                  result |-> [ kind             |-> "trained",
                               training_samples |-> TrainSamples(features_df.rows),
                               test_samples     |-> TestSamples(features_df.rows),
                               features_used    |-> available_features ] ]))

\* the default_values table of predict_task_delay, read with .get(feature, 0)
default_values(feature) ==
    CASE feature = "estimated_hours"           -> Tenths(24)
      [] feature = "progress_ratio"            -> 5
      [] feature = "dependency_count"          -> 0
      [] feature = "team_size"                 -> Tenths(3)
      [] feature = "priority_numeric"          -> Tenths(2)
      [] feature = "domain_complexity_score"   -> Tenths(25)
      [] feature = "assignee_experience_score" -> Tenths(50)
      [] feature = "project_complexity_score"  -> Tenths(30)
      [] OTHER                                 -> 0

\* the feature vector predict_task_delay assembles from task_data
FeatureVector(feature_columns, task_data) ==
    [ i \in 1..Len(feature_columns) |->
        IF feature_columns[i] \in DOMAIN task_data
        THEN task_data[feature_columns[i]]
        ELSE default_values(feature_columns[i]) ]

\* sklearn refuses an object that was never fitted and a matrix whose
\* number of columns is not the one it was fitted on
Accepts(fitted, features) ==
    fitted.run # 0 /\ Len(fitted.cols) = Len(features) /\ Len(features) > 0

\* duration_predictor.predict(features_scaled)[0]: a value that the fitted
\* regressor, the fitted scaler and the vector determine, in days
DurationPredict(regressor, scaler, features) ==
    ((SumSeq(features) + regressor.run + scaler.run) % (MaxRawDelay + 2)) - 1

Categories == << "no_delay", "minor_delay", "major_delay", "critical_delay" >>

\* delay_classifier.predict(features_scaled)[0]
CategoryPredict(classifier, scaler, features) ==
    Categories[((SumSeq(features) + classifier.run + scaler.run) % 4) + 1]

\* the tiers with the thresholds on the upper side
get_recommendation_inclusive(risk_score, delay_days) ==
    IF risk_score >= 80 THEN "Critical"
    ELSE IF risk_score >= 60 THEN "High Risk"
    ELSE IF risk_score >= 40 THEN "Medium Risk"
    ELSE IF delay_days > 0 THEN "Low Risk"
    ELSE "On Track"

\* _get_recommendation
get_recommendation(risk_score, delay_days) ==
    IF risk_score > 80 THEN "Critical"
    ELSE IF risk_score > 60 THEN "High Risk"
    ELSE IF risk_score > 40 THEN "Medium Risk"
    ELSE IF delay_days > 0 THEN "Low Risk"
    ELSE "On Track"

\* the risk level without max(..., 0)
risk_level_unclamped(predicted_delay_days) ==
    Min2(predicted_delay_days * 15, 100)

\* risk_score = min(max(predicted_delay_days * 15, 0), 100)
risk_level(predicted_delay_days) ==
    Min2(Max2(predicted_delay_days * 15, 0), 100)

\* the dict predict_task_delay builds from what it read: the feature list,
\* the scaler, the regressor, the classifier at predict() and the
\* classifier at predict_proba()
Prediction(feature_columns, scaler, regressor, classifier, proba, task_data) ==
    With(FeatureVector(feature_columns, task_data), LAMBDA features :
      IF ~ ( Accepts(scaler, features) /\ Accepts(regressor, features)
             /\ Accepts(classifier, features) /\ Accepts(proba, features) )
      THEN [kind |-> "raised"]
      ELSE
        With(DurationPredict(regressor, scaler, features),
             LAMBDA predicted_delay_days :
        With(risk_level(predicted_delay_days), LAMBDA risk_score :
          [ kind                   |-> "prediction",
            features               |-> features,
            raw_delay_days         |-> predicted_delay_days,
            predicted_delay_days   |-> Max2(0, predicted_delay_days),
            predicted_category     |-> CategoryPredict(classifier, scaler, features),
            risk_score             |-> risk_score,
            category_probabilities |-> [classifier |-> proba.run,
                                        scaler     |-> scaler.run],
            recommendation         |->
                get_recommendation(risk_score, predicted_delay_days) ])))

\* number of rows of a table that satisfy Test
CountRows(rows, Test(_)) == Len(SelectSeq(rows, Test))

\* analyze_project_risks without its "if tasks_df.empty" return
analyze_project_risks_unguarded(tasks, project_id) ==
    LET scoped == IF project_id # "None"
                  THEN SelectSeq(tasks, LAMBDA r : r.project_id = project_id)
                  ELSE tasks
    IN  [ kind            |-> "summary",
          total_tasks     |-> Len(scoped),
          delayed_tasks   |-> 0,
          high_risk_tasks |-> 0,
          critical_tasks  |-> << >> ]

\* analyze_project_risks without the project filter on the feature table
analyze_project_risks_unscoped(tasks, project_id) ==
    LET scoped == IF project_id # "None"
                  THEN SelectSeq(tasks, LAMBDA r : r.project_id = project_id)
                  ELSE tasks
    IN  IF scoped = << >>
        THEN ErrorResult("No tasks found for analysis")
        ELSE With(label_rows(tasks), LAMBDA features_df :
          [ kind            |-> "summary",
            total_tasks     |-> Len(features_df),
            delayed_tasks   |-> CountRows(features_df,
                                          LAMBDA r : r.is_delayed = 1),
            high_risk_tasks |-> CountRows(features_df,
                                          LAMBDA r : r.risk_score > Tenths(70)),
            critical_tasks  |->
                SelectSeq(features_df,
                          LAMBDA r : \/ r.risk_score > Tenths(60)
                                     \/ r.delay_days > DELAY_THRESHOLDS.major) ])

\* DelayPredictor.analyze_project_risks on a tasks table whose rows carry
\* the columns the summary reads; project_id "None" is the whole portfolio
analyze_project_risks(tasks, project_id) ==
    LET scoped == IF project_id # "None"
                  THEN SelectSeq(tasks, LAMBDA r : r.project_id = project_id)
                  ELSE tasks
    IN  IF scoped = << >>
        THEN ErrorResult("No tasks found for analysis")
        ELSE With(label_rows(scoped), LAMBDA features_df :
          [ kind            |-> "summary",
            total_tasks     |-> Len(features_df),
            delayed_tasks   |-> CountRows(features_df,
                                          LAMBDA r : r.is_delayed = 1),
            high_risk_tasks |-> CountRows(features_df,
                                          LAMBDA r : r.risk_score > Tenths(70)),
            critical_tasks  |->
                SelectSeq(features_df,
                          LAMBDA r : \/ r.risk_score > Tenths(60)
                                     \/ r.delay_days > DELAY_THRESHOLDS.major) ])

\* predict_task_delay without its first two lines
predict_task_delay_unchecked(p, task_data) ==
    [p |-> p,
     result |-> Prediction(p.feature_columns, p.scaler, p.duration_predictor,
                           p.delay_classifier, p.delay_classifier, task_data)]

\* predict_task_delay calling self.scaler.fit_transform([features])
predict_task_delay_refitting(p, task_data) ==
    IF ~ p.is_trained
    THEN [p |-> p, result |-> ErrorResult("Model not trained yet")]
    ELSE [p |-> [p EXCEPT !.scaler = Fit(MaxRuns + 1, p.feature_columns)],
          result |-> Prediction(p.feature_columns, p.scaler,
                                p.duration_predictor, p.delay_classifier,
                                p.delay_classifier, task_data)]

\* predict_task_delay fitting the regressor again (warm_start) after it
\* has answered
predict_task_delay_warm(p, task_data) ==
    IF ~ p.is_trained
    THEN [p |-> p, result |-> ErrorResult("Model not trained yet")]
    ELSE [p |-> [p EXCEPT !.duration_predictor =
                              Fit(MaxRuns + 1, p.feature_columns)],
          result |-> Prediction(p.feature_columns, p.scaler,
                                p.duration_predictor, p.delay_classifier,
                                p.delay_classifier, task_data)]

\* predict_task_delay: the predictor afterwards and the dict returned
\* (kind "raised": the call ended in an exception)
predict_task_delay(p, task_data) ==
    IF ~ p.is_trained
    THEN [p |-> p, result |-> ErrorResult("Model not trained yet")]
    ELSE [p |-> p,
          result |-> Prediction(p.feature_columns, p.scaler,
                                p.duration_predictor, p.delay_classifier,
                                p.delay_classifier, task_data)]

\* the three .pkl files of save_models / load_models
NoFile == [run |-> -1, cols |-> << >>]
EmptyDisk == [duration |-> NoFile, classifier |-> NoFile, scaler |-> NoFile]

\* save_models: nothing when not trained; else the three dumps in order,
\* of which the first `written` succeed (an exception ends the rest)
save_models(p, disk, written) ==
    IF ~ p.is_trained THEN disk
    ELSE [ duration   |-> IF written >= 1 THEN p.duration_predictor ELSE disk.duration,
           classifier |-> IF written >= 2 THEN p.delay_classifier ELSE disk.classifier,
           scaler     |-> IF written >= 3 THEN p.scaler ELSE disk.scaler ]

\* load_models with is_trained = True in its except branch too
load_models_flagging(p, disk) ==
    IF disk.duration = NoFile THEN [p EXCEPT !.is_trained = TRUE]
    ELSE [p EXCEPT !.duration_predictor = disk.duration,
                   !.delay_classifier = IF disk.classifier = NoFile
                                        THEN @ ELSE disk.classifier,
                   !.scaler = IF disk.classifier = NoFile \/ disk.scaler = NoFile
                              THEN @ ELSE disk.scaler,
                   !.is_trained = TRUE]

\* load_models: the three loads in order; a missing file raises, the
\* objects loaded before it stay, and is_trained becomes False
load_models(p, disk) ==
    IF disk.duration = NoFile THEN [p EXCEPT !.is_trained = FALSE]
    ELSE IF disk.classifier = NoFile
    THEN [p EXCEPT !.duration_predictor = disk.duration, !.is_trained = FALSE]
    ELSE IF disk.scaler = NoFile
    THEN [p EXCEPT !.duration_predictor = disk.duration,
                   !.delay_classifier = disk.classifier,
                   !.is_trained = FALSE]
    ELSE [p EXCEPT !.duration_predictor = disk.duration,
                   !.delay_classifier = disk.classifier,
                   !.scaler = disk.scaler,
                   !.is_trained = TRUE]

\* the columns of the tasks table that get_delay_trends reads
TrendTaskColumns == {"created_at", "delay_days", "is_delayed", "delay_category"}

\* a stage's dict, and the exception a call let out
StageResult(kind) == [kind |-> kind, error |-> ""]
RaisedError(msg) == [kind |-> "raised", error |-> msg]

\* DelayPredictor.get_delay_trends: the weekly statistics and the alert
\* pivot, or the KeyError of data['tasks'] on a dict without that table and
\* of the aggregation over a column the table does not have
predictor_get_delay_trends(dataset) ==
    IF ~ dataset.loaded THEN RaisedError("'tasks'")
    ELSE IF ~ (TrendTaskColumns \subseteq dataset.task_cols)
         THEN RaisedError("column does not exist")
    ELSE StageResult("trends")

(* --------------------------- analysis_runner.py ------------------------ *)

\* The runner's fields (data, predictions, predictor), the number of
\* training runs so far, and two counters of the calls made to
\* DelayPredictor.train_models and DelayPredictor.predict_task_delay.
Runner(d, n, p, r) ==
    [ data |-> d, predictions |-> n, predictor |-> p, runs |-> r,
      train_calls |-> 0, predict_calls |-> 0 ]

\* load_all_data: self.data = get_comprehensive_dataset() and True, or
\* False with self.data as it was when the call raised
load_all_data(R, engine, env) ==
    With(get_comprehensive_dataset(engine, env.failed, env.dbRows, env.noHours),
         LAMBDA d :
      IF Raised(d) THEN [R |-> R, ok |-> FALSE]
      ELSE [R |-> [R EXCEPT !.data = d], ok |-> TRUE])

\* train_prediction_models: the runner afterwards and the dict returned
train_prediction_models(R) ==
    IF ~ R.data.loaded
    THEN [R |-> R, result |-> ErrorResult("No data available")]
    ELSE With(train_models(R.predictor, R.data, R.runs + 1), LAMBDA t :
           [ R |-> [R EXCEPT !.predictor = t.p,
                             !.runs = IF t.result.kind = "trained"
                                      THEN @ + 1 ELSE @,
                             !.train_calls = @ + 1],
             result |-> t.result ])

\* the task_data that generate_predictions_for_all_tasks builds for a row:
\* always these eight keys
RowTaskData == [k \in {numeric_columns[i] : i \in 1..Len(numeric_columns)}
                   |-> default_values(k)]

\* generate_predictions_for_all_tasks training before it predicts whether
\* or not the model is trained
generate_predictions_retraining(R) ==
    With(train_prediction_models(R).R, LAMBDA R1 :
      IF ~ R1.predictor.is_trained THEN [R |-> R1, n |-> 0]
      ELSE IF ~ R1.data.loaded \/ R1.data.rows = 0 THEN [R |-> R1, n |-> 0]
      ELSE With(IF predict_task_delay(R1.predictor, RowTaskData)
                      .result.kind = "prediction"
                THEN R1.data.rows ELSE 0,
                LAMBDA made :
             [ R |-> [R1 EXCEPT !.predictions = made,
                                !.predict_calls = @ + R1.data.rows],
               n |-> made ]))

\* generate_predictions_for_all_tasks: one predict_task_delay call for
\* every row of the tasks table; a call that raises adds no prediction.
\* predictions is len(self.predictions).
generate_predictions_for_all_tasks(R) ==
    With(IF ~ R.predictor.is_trained THEN train_prediction_models(R).R ELSE R,
         LAMBDA R1 :
      IF ~ R1.predictor.is_trained THEN [R |-> R1, n |-> 0]
      ELSE IF ~ R1.data.loaded \/ R1.data.rows = 0 THEN [R |-> R1, n |-> 0]
      ELSE With(IF predict_task_delay(R1.predictor, RowTaskData)
                      .result.kind = "prediction"
                THEN R1.data.rows ELSE 0,
                LAMBDA made :
             [ R |-> [R1 EXCEPT !.predictions = made,
                                !.predict_calls = @ + R1.data.rows],
               n |-> made ]))

\* AnalysisRunner.analyze_project_risks(None): the predictor's summary of
\* self.data, or {"error": str(e)} for what the predictor raised
runner_analyze_project_risks(R) ==
    IF ~ R.data.loaded THEN ErrorResult("'tasks'")
    ELSE IF R.data.rows = 0 THEN ErrorResult("No tasks found for analysis")
    ELSE StageResult("summary")

\* AnalysisRunner.get_delay_trends: the predictor's trends, or
\* {"error": str(e)} for what the predictor raised
runner_get_delay_trends(R) ==
    With(predictor_get_delay_trends(R.data), LAMBDA trends :
      IF trends.kind = "raised" THEN ErrorResult(trends.error) ELSE trends)

\* generate_visualizations: the chart paths, or {"error": str(e)} when the
\* visualizer raised
generate_visualizations(chartsFail) ==
    IF chartsFail THEN ErrorResult("charts") ELSE StageResult("charts")

\* a key the dict returned does not have
NoEntry == [kind |-> "absent", error |-> ""]

\* the stages of run_comprehensive_analysis in which an exception was
\* caught, read off the stage results
CaughtIn(stage, result) == IF result.kind = "error" THEN {stage} ELSE {}

\* the dict run_comprehensive_analysis returns when it stops early
EarlyResult(msg) ==
    [ kind |-> "error", error |-> msg, total_predictions |-> 0,
      risk_analysis |-> NoEntry, trends |-> NoEntry,
      charts_generated |-> NoEntry, results_file |-> NoEntry ]

\* run_comprehensive_analysis up to the predictions: load, train, predict.
\* stopped is the stage that ended the pipeline, "" when none did.
analysis_stages(R, engine, env) ==
    With(load_all_data(R, engine, env), LAMBDA l :
    IF ~ l.ok THEN [R |-> l.R, stopped |-> "load", n |-> 0]
    ELSE
    With(train_prediction_models(l.R), LAMBDA t :
      IF t.result.kind = "error"
      THEN [R |-> t.R, stopped |-> "train", n |-> 0]
      ELSE With(generate_predictions_for_all_tasks(t.R), LAMBDA g :
             [R |-> g.R, stopped |-> "", n |-> g.n])))

\* run_comprehensive_analysis from the risk analysis on: the runner
\* afterwards, the dict returned and the stages in which something failed.
\* faults says whether the visualizer raises and whether writing the
\* results file raises.
compile_results(s, faults) ==
    IF s.stopped = "load"
    THEN [ R |-> s.R, results |-> EarlyResult("Failed to load data"),
           caught |-> {"load"} ]
    ELSE IF s.stopped = "train"
    THEN [ R |-> s.R, results |-> EarlyResult("Failed to train models"),
           caught |-> {"train"} ]
    ELSE With(runner_analyze_project_risks(s.R), LAMBDA risk_analysis :
         With(runner_get_delay_trends(s.R), LAMBDA trends :
         With(generate_visualizations(faults.charts), LAMBDA charts :
           [ R |-> s.R,
             results |-> [kind |-> "results", error |-> "",
                          total_predictions |-> s.n,
                          risk_analysis |-> risk_analysis,
                          trends |-> trends,
                          charts_generated |-> charts,
                          \* results["results_file"] is set after the
                          \* file is written; a failure is printed only
                          results_file |-> IF faults.save THEN NoEntry
                                           ELSE StageResult("file")],
             caught |-> CaughtIn("risk", risk_analysis)
                          \cup CaughtIn("trends", trends)
                          \cup CaughtIn("charts", charts)
                          \cup (IF faults.save THEN {"save"} ELSE {}) ])))

\* run_comprehensive_analysis
run_comprehensive_analysis(R, engine, env, faults) ==
    compile_results(analysis_stages(R, engine, env), faults)

(* --------------------------- api_integration.py ------------------------ *)

VARIABLES
    engine,                 \* DataLoader.engine of the runner's loader
    data,                   \* AnalysisRunner.data
    predictions,            \* len(AnalysisRunner.predictions)
    predictor,              \* AnalysisRunner.predictor
    runs,                   \* training runs that reached the fit stage
    disk,                   \* the three model files
    last_analysis_results,  \* PythonAnalysisAPI.last_analysis_results
    last,                   \* the call or request handled last
    pc,                     \* where each request thread of the server stands
    task,                   \* task_data of the predict_task request in flight
    obs,                    \* what the predict_task request has read so far
    raced                   \* a training run overlapped that request

vars == << engine, data, predictions, predictor, runs, disk,
           last_analysis_results, last, pc, task, obs, raced >>

threadVars == << pc, task, obs, raced >>

FeatureKeys == { PREDICTION_FEATURES[i] : i \in 1..Len(PREDICTION_FEATURES) }

\* keys of a request body: two features the predictor has defaults for, a
\* feature it has none for, and a key that is no feature
BodyKeys == {"estimated_hours", "team_size", "risk_score", "title"}

\* JSON objects of a request: at most MaxBodyKeys keys
JsonObjects ==
    { [k \in S |-> v] : S \in {T \in SUBSET BodyKeys : Cardinality(T) <= MaxBodyKeys},
                        v \in 1..MaxBodyValue }

EmptyObject == [k \in {} |-> 0]

\* request.get_json(): None, or the object sent
Bodies == {[present |-> FALSE, obj |-> EmptyObject]}
             \cup {[present |-> TRUE, obj |-> o] : o \in JsonObjects}

\* Python's "not task_data": None and the empty dict
Falsy(body) == ~ body.present \/ DOMAIN body.obj = {}

\* what the record source answers during one request: the queries that
\* fail and the number of task rows the database holds
RowChoices == {0, MinTrainingRows - 1, MinTrainingRows, MaxDbRows}
FailureChoices == { {}, {"tasks"}, {"users", "teams"}, Tables }
Envs == [failed : FailureChoices, dbRows : RowChoices, noHours : BOOLEAN]

\* the record source is asked only when the handler loads the data
\* what else can fail during run_comprehensive_analysis: the visualizer
\* writing the charts, and the writing of the results file
StageFaults == [charts : BOOLEAN, save : BOOLEAN]

AnyEnv == [failed |-> {}, dbRows |-> 0, noHours |-> FALSE]
EnvsIfLoading(loading) == IF loading THEN Envs ELSE {AnyEnv}

NoResult == [kind |-> "none"]

\* app.run(threaded=True): requests are handled by threads of their own;
\* one sends POST /models/train, the other POST /analyze/predict_task
Threads == {"train", "predict"}

NothingRead ==
    [ feature_columns |-> << >>, scaler |-> Unfitted, regressor |-> Unfitted,
      classifier |-> Unfitted, proba |-> Unfitted ]
NoBody == [present |-> FALSE, obj |-> EmptyObject]

Last(op, body, result, status, R) ==
    [ op |-> op, body |-> body, result |-> result, status |-> status,
      train_calls |-> R.train_calls, predict_calls |-> R.predict_calls ]

Init ==
    /\ engine \in {connect_to_database(f) : f \in BOOLEAN}
    /\ data = NoData
    /\ predictions = 0
    /\ predictor = NewPredictor
    /\ runs = 0
    /\ disk = EmptyDisk
    /\ last_analysis_results = NoResult
    /\ last = [op |-> "init", body |-> NoBody, result |-> NoResult, status |-> 0,
               train_calls |-> 0, predict_calls |-> 0]
    /\ pc = [t \in Threads |-> "idle"]
    /\ task = EmptyObject
    /\ obs = NothingRead
    /\ raced = FALSE

Self == Runner(data, predictions, predictor, runs)

\* the runner's fields written back; a training run beyond MaxRuns is
\* outside the behaviours explored
Commit(R) ==
    /\ R.runs <= MaxRuns
    /\ data' = R.data
    /\ predictions' = R.predictions
    /\ predictor' = R.predictor
    /\ runs' = R.runs

\* "if not self.analysis_runner.data: self.analysis_runner.load_all_data()"
EnsureData(R, env) ==
    IF ~ R.data.loaded THEN load_all_data(R, engine, env).R ELSE R

\* GET /health
health_check ==
    /\ last' = Last("health", NoBody, NoResult, 200, Self)
    /\ UNCHANGED << engine, data, predictions, predictor, runs, disk,
                    last_analysis_results, pc, task, obs, raced >>

\* GET|POST /analyze/full
run_full_analysis ==
    \E env \in Envs :
      \E s \in {analysis_stages(Self, engine, env)} :
      \E faults \in StageFaults :
      \E a \in {compile_results(s, faults)} :
          /\ Commit(a.R)
          /\ last_analysis_results' = a.results
          /\ last' = Last("analyze_full", NoBody, a.results, 200, a.R)
                       @@ [caught |-> a.caught]
          /\ UNCHANGED << engine, disk, pc, task, obs, raced >>

\* GET|POST /analyze/predictions
get_predictions ==
    \E env \in EnvsIfLoading(~ data.loaded) :
      \E R1 \in {EnsureData(Self, env)} :
      \E R2 \in {IF ~ R1.predictor.is_trained
                  THEN train_prediction_models(R1).R ELSE R1} :
      \E g \in {generate_predictions_for_all_tasks(R2)} :
          /\ Commit(g.R)
          /\ last' = Last("analyze_predictions", NoBody,
                          [kind |-> "predictions", total_predictions |-> g.n],
                          200, g.R)
          /\ UNCHANGED << engine, disk, last_analysis_results, pc, task, obs, raced >>

\* GET /analyze/risk, /analyze/risk/<project_id>,
\* POST /analyze/charts, GET /data/summary: load the data when there is
\* none, then read it
read_only_route(op) ==
    \E env \in EnvsIfLoading(~ data.loaded) :
      \E R1 \in {EnsureData(Self, env)} :
          /\ Commit(R1)
          /\ last' = Last(op, NoBody, NoResult, 200, R1)
          /\ UNCHANGED << engine, disk, last_analysis_results, pc, task, obs, raced >>

analyze_project_risk      == read_only_route("analyze_risk_project")
analyze_all_projects_risk == read_only_route("analyze_risk")

\* GET /analyze/trends: the runner's trends, or its error dict, under
\* "success": True
get_delay_trends ==
    \E env \in EnvsIfLoading(~ data.loaded) :
      \E R1 \in {EnsureData(Self, env)} :
          /\ Commit(R1)
          /\ last' = Last("analyze_trends", NoBody,
                          runner_get_delay_trends(R1), 200, R1)
          /\ UNCHANGED << engine, disk, last_analysis_results, pc, task, obs, raced >>

generate_charts           == read_only_route("analyze_charts")
get_data_summary          == read_only_route("data_summary")

\* GET /analyze/recommendations: reads self.predictions only
get_recommendations ==
    /\ last' = Last("analyze_recommendations", NoBody, NoResult, 200, Self)
    /\ UNCHANGED << engine, data, predictions, predictor, runs, disk,
                    last_analysis_results, pc, task, obs, raced >>

\* POST /analyze/predict_task
predict_single_task ==
    \E body \in Bodies,
       env \in EnvsIfLoading(~ predictor.is_trained /\ ~ data.loaded) :
      IF Falsy(body)
      THEN /\ last' = Last("predict_task", body,
                           ErrorResult("No task data provided"), 400, Self)
           /\ UNCHANGED << engine, data, predictions, predictor, runs, disk,
                           last_analysis_results, pc, task, obs, raced >>
      ELSE \E R1 \in {IF ~ predictor.is_trained
                         THEN train_prediction_models(EnsureData(Self, env)).R
                         ELSE Self} :
           \E pr \in {predict_task_delay(R1.predictor, body.obj)} :
           \E R2 \in {[R1 EXCEPT !.predictor = pr.p, !.predict_calls = @ + 1]} :
               /\ Commit(R2)
               /\ last' = Last("predict_task", body, pr.result,
                               IF pr.result.kind = "raised" THEN 500 ELSE 200, R2)
               /\ UNCHANGED << engine, disk, last_analysis_results, pc, task, obs, raced >>

\* POST /models/train
train_models_route ==
    \E env \in EnvsIfLoading(~ data.loaded) :
      \E t \in {train_prediction_models(EnsureData(Self, env))} :
          /\ Commit(t.R)
          /\ last' = Last("models_train", NoBody, t.result, 200, t.R)
          /\ UNCHANGED << engine, disk, last_analysis_results, pc, task, obs, raced >>

\* GET /results/latest
get_latest_results ==
    /\ last' = Last("results_latest", NoBody, last_analysis_results,
                    IF last_analysis_results = NoResult THEN 404 ELSE 200, Self)
    /\ UNCHANGED << engine, data, predictions, predictor, runs, disk,
                    last_analysis_results, pc, task, obs, raced >>

(* ------------- calls made on the DelayPredictor itself ------------------ *)

\* datasets a caller hands to train_models: what the record source
\* returns, a tasks table that lacks two of the numeric columns, and a
\* tasks table that carries one more column of PREDICTION_FEATURES
CallerDatasets ==
    { get_comprehensive_dataset(e, {}, n, FALSE)
        : e \in {"None", "engine"}, n \in RowChoices }
    \cup { [ get_comprehensive_dataset("engine", {}, n, FALSE) EXCEPT
               !.task_cols = @ \ {"estimated_hours", "dependency_count"} ]
           : n \in {MinTrainingRows} }
    \cup { [ get_comprehensive_dataset("engine", {}, n, FALSE) EXCEPT
               !.task_cols = @ \cup {"urgency_score"} ]
           : n \in {MinTrainingRows - 1, MinTrainingRows} }

\* whether the call before this one was the same call with the same
\* argument, and what it returned
Repeated(op, o) ==
    IF last.op = op /\ last.body = [present |-> TRUE, obj |-> o]
    THEN [again |-> TRUE, before |-> last.result]
    ELSE [again |-> FALSE, before |-> NoResult]

call_train_models ==
    \E d \in CallerDatasets :
      \E t \in {train_models(predictor, d, runs + 1)} :
          /\ IF t.result.kind = "trained" THEN runs' = runs + 1 ELSE runs' = runs
          /\ runs' <= MaxRuns
          /\ predictor' = t.p
          /\ last' = [Last("train_models", d, t.result, 0, Self)
                        EXCEPT !.train_calls = 1]
          /\ UNCHANGED << engine, data, predictions, disk, last_analysis_results, pc, task, obs, raced >>

call_predict_task_delay ==
    \E o \in JsonObjects \cup {EmptyObject} :
      \E pr \in {predict_task_delay(predictor, o)} :
          /\ predictor' = pr.p
          /\ last' = [Last("predict_task_delay", [present |-> TRUE, obj |-> o],
                           pr.result, 0, Self) EXCEPT !.predict_calls = 1]
                      @@ Repeated("predict_task_delay", o)
          /\ UNCHANGED << engine, data, predictions, runs, disk,
                          last_analysis_results, pc, task, obs, raced >>

call_save_models ==
    \E written \in 0..3 :
      /\ disk' = save_models(predictor, disk, written)
      /\ last' = Last("save_models", NoBody, NoResult, 0, Self)
      /\ UNCHANGED << engine, data, predictions, predictor, runs,
                      last_analysis_results, pc, task, obs, raced >>

call_load_models ==
    /\ predictor' = load_models(predictor, disk)
    /\ last' = Last("load_models", NoBody, NoResult, 0, Self)
    /\ UNCHANGED << engine, data, predictions, runs, disk, last_analysis_results, pc, task, obs, raced >>

\* DelayPredictor() in a new process: a new object, and the model files
\* that an earlier process saved
new_DelayPredictor ==
    /\ predictor' = NewPredictor
    /\ last' = Last("DelayPredictor", NoBody, NoResult, 0, Self)
    /\ UNCHANGED << engine, data, predictions, runs, disk,
                    last_analysis_results, pc, task, obs, raced >>

\* the requests of the HTTP facade, one handled at a time
Next ==
    \/ health_check
    \/ run_full_analysis
    \/ get_predictions
    \/ analyze_project_risk
    \/ analyze_all_projects_risk
    \/ get_delay_trends
    \/ get_recommendations
    \/ predict_single_task
    \/ generate_charts
    \/ get_data_summary
    \/ train_models_route
    \/ get_latest_results

Spec == Init /\ [][Next]_vars

\* the public methods of one DelayPredictor, called in any order
NextPredictor ==
    \/ call_train_models
    \/ call_predict_task_delay
    \/ call_save_models
    \/ call_load_models
    \/ new_DelayPredictor

SpecPredictor == Init /\ [][NextPredictor]_vars

(* ----------------- the record source on its own ------------------------- *)

\* DataLoader(): __init__ calls connect_to_database, which may fail
new_DataLoader ==
    \E connFails \in BOOLEAN :
      /\ engine' = connect_to_database(connFails)
      /\ last' = [op |-> "DataLoader", connFails |-> connFails,
                  failed |-> {}, raised |-> FALSE]
      /\ UNCHANGED << data, predictions, predictor, runs, disk,
                      last_analysis_results, pc, task, obs, raced >>

\* DataLoader.get_comprehensive_dataset(), with any of the five queries
\* failing
call_get_comprehensive_dataset ==
    \E failed \in SUBSET Tables, dbRows \in RowChoices, noHours \in BOOLEAN :
      \E d \in {get_comprehensive_dataset(engine, failed, dbRows, noHours)} :
        /\ data' = IF Raised(d) THEN data ELSE d
        /\ last' = [op |-> "get_comprehensive_dataset", connFails |-> FALSE,
                    failed |-> failed, raised |-> Raised(d)]
        /\ UNCHANGED << engine, predictions, predictor, runs, disk,
                        last_analysis_results, pc, task, obs, raced >>

NextLoader ==
    \/ new_DataLoader
    \/ call_get_comprehensive_dataset

SpecLoader == Init /\ [][NextLoader]_vars

(* ------------------ the label and risk computations --------------------- *)

\* timestamps of a task, in half days, and NaT
Timestamps == 0..MaxHalfDays

\* the three dates of a task and the clock of _process_tasks_data
TaskDates ==
    [ completed_date : Timestamps \cup {NaN},
      due_date       : Timestamps \cup {NaN},
      now            : Timestamps ]

\* rows of a feature table: delay_days as _process_tasks_data leaves it,
\* priority_numeric 1..4, progress_ratio in tenths between 0 and 2.0
FeatureRows ==
    [ project_id       : {"proj1"},
      delay_days       : (0..MaxDelayDays) \cup {NaN},
      priority_numeric : 1..4,
      progress_ratio   : {0, 2, 5, 19, 20} ]

\* rows of the tasks tables handed to analyze_project_risks
RiskRows ==
    [ project_id       : {"proj1", "proj2"},
      delay_days       : {NaN, 0, 4, 8},
      priority_numeric : {1, 4},
      progress_ratio   : {0, 20} ]

RECURSIVE TablesOf(_, _)
TablesOf(rows, n) ==
    IF n = 0 THEN { << >> }
    ELSE LET shorter == TablesOf(rows, n - 1)
         IN  shorter \cup { Append(t, r) : t \in { u \in shorter : Len(u) = n - 1 },
                                           r \in rows }

\* a call about to be made: the function and its arguments
Call(name, body, project_id) ==
    [op |-> "call", name |-> name, body |-> body, project_id |-> project_id]

DateCalls == { Call("process_tasks_data", d, "None") : d \in TaskDates }

LabelCalls ==
    { Call("create_delay_labels", << r1, r2 >>, "None")
      : r1 \in FeatureRows, r2 \in FeatureRows }

RiskCalls ==
    { Call("analyze_project_risks", t, project_id)
      : t \in TablesOf(RiskRows, MaxTasks),
        project_id \in {"None", "proj1", "proj2", "proj9"} }

\* hours of a task in tenths, and a missing value
TaskHours ==
    [ actual_hours    : (0..MaxHourTenths) \cup {NaN},
      estimated_hours : (0..MaxHourTenths) \cup {NaN} ]

HourCalls == { Call("progress_ratio", h, "None") : h \in TaskHours }

\* risk scores between the clip bounds and delays around 0
RecommendationInputs == [risk_score : 0..100, delay_days : -1..1]

RecommendationCalls ==
    { Call("get_recommendation", a, "None") : a \in RecommendationInputs }

\* a numeric column of the merged table: its name, whether the table has
\* it, and its cells, one for each task
NumericColumns ==
    [ col     : { numeric_columns[i] : i \in 1..Len(numeric_columns) },
      present : BOOLEAN,
      cells   : TablesOf({NaN, 2, 4}, MaxTasks) ]

FillCalls == { Call("prepare_features", c, "None") : c \in NumericColumns }

\* a fresh process and one call with its arguments chosen
InitLabels ==
    /\ engine \in {connect_to_database(f) : f \in {TRUE}}
    /\ data = NoData
    /\ predictions = 0
    /\ predictor = NewPredictor
    /\ runs = 0
    /\ disk = EmptyDisk
    /\ last_analysis_results = NoResult
    /\ \/ last \in DateCalls
       \/ last \in LabelCalls
       \/ last \in RiskCalls
       \/ last \in HourCalls
       \/ last \in FillCalls
       \/ last \in RecommendationCalls
    /\ pc = [t \in Threads |-> "idle"]
    /\ task = EmptyObject
    /\ obs = NothingRead
    /\ raced = FALSE

Returned(result) ==
    /\ last' = [ op |-> last.name, body |-> last.body,
                 project_id |-> last.project_id, result |-> result ]
    /\ UNCHANGED << engine, data, predictions, predictor, runs, disk,
                    last_analysis_results, pc, task, obs, raced >>

\* DataLoader._process_tasks_data on a task with these three dates
call_process_tasks_data ==
    /\ last.op = "call" /\ last.name = "process_tasks_data"
    /\ Returned([delay_days |->
                   task_delay_days(last.body.completed_date,
                                   last.body.due_date, last.body.now)])

\* DelayPredictor.create_delay_labels on a feature table of two rows
call_create_delay_labels ==
    /\ last.op = "call" /\ last.name = "create_delay_labels"
    /\ Returned(label_rows(last.body))

\* DelayPredictor.analyze_project_risks(data, project_id)
call_analyze_project_risks ==
    /\ last.op = "call" /\ last.name = "analyze_project_risks"
    /\ Returned(analyze_project_risks(last.body, last.project_id))

\* the progress_ratio of _process_tasks_data on a task with these hours
call_progress_ratio ==
    /\ last.op = "call" /\ last.name = "progress_ratio"
    /\ Returned([progress_ratio |->
                   task_progress_ratio(last.body.actual_hours,
                                       last.body.estimated_hours)])

\* DelayPredictor._get_recommendation(risk_score, delay_days)
call_get_recommendation ==
    /\ last.op = "call" /\ last.name = "get_recommendation"
    /\ Returned([recommendation |->
                   get_recommendation(last.body.risk_score,
                                      last.body.delay_days)])

\* prepare_features, the filling of one numeric column
call_prepare_features ==
    /\ last.op = "call" /\ last.name = "prepare_features"
    /\ Returned(fill_numeric_column(last.body.col, last.body.present,
                                    last.body.cells))

NextLabels ==
    \/ call_process_tasks_data
    \/ call_create_delay_labels
    \/ call_analyze_project_risks
    \/ call_progress_ratio
    \/ call_get_recommendation
    \/ call_prepare_features

SpecLabels == InitLabels /\ [][NextLabels]_vars

(* ------------- two requests in flight on the threaded server ------------ *)

\* main(): load_all_data() and train_prediction_models() before
\* run_server(); the server starts trained when the data has enough rows
InitRace ==
    /\ engine \in {connect_to_database(f) : f \in BOOLEAN}
    /\ data \in { get_comprehensive_dataset(engine, env.failed, env.dbRows,
                                            env.noHours) : env \in Envs }
    /\ data.loaded
    /\ data.rows >= MinTrainingRows
    /\ predictions = 0
    /\ predictor = train_models(NewPredictor, data, 1).p
    /\ runs = 1
    /\ disk = EmptyDisk
    /\ last_analysis_results = NoResult
    /\ last = [op |-> "init", body |-> NoBody, result |-> NoResult, status |-> 0,
               train_calls |-> 0, predict_calls |-> 0]
    /\ pc = [t \in Threads |-> "idle"]
    /\ task = EmptyObject
    /\ obs = NothingRead
    /\ raced = FALSE

\* bodies of the predict_task requests that race with a training run: no
\* body, the empty object, and objects that give one feature
RaceBodies ==
    { b \in Bodies : /\ Cardinality(DOMAIN b.obj) <= 1
                     /\ DOMAIN b.obj \subseteq {"estimated_hours", "risk_score"} }

\* the predict_task request is between its is_trained check and its last
\* read of the model
Reading == pc["predict"] \in {"read_columns", "read_scaler", "read_regressor",
                              "read_classifier", "read_proba"}

\* the training request is between its first write and is_trained = True
Training == pc["train"] # "idle"

\* POST /models/train, up to self.feature_columns = available_features and
\* the two early returns of train_models
train_begin ==
    /\ pc["train"] = "idle"
    /\ runs < MaxRuns
    /\ data.loaded
    /\ \E cols \in {AvailableFeatures(data)} :
         /\ predictor' = AssignFeatureColumns(predictor, cols)
         /\ IF cols = << >> \/ TooFewRows(data.rows)
            THEN /\ pc' = pc
                 /\ runs' = runs
                 /\ last' = Last("models_train", NoBody,
                                 train_models(predictor, data, runs + 1).result,
                                 200, Self)
            ELSE /\ pc' = [pc EXCEPT !["train"] = "fit_scaler"]
                 /\ runs' = runs + 1
                 /\ last' = last
    /\ raced' = (raced \/ Reading)
    /\ UNCHANGED << engine, data, predictions, disk, last_analysis_results,
                    task, obs >>

\* one fit of train_models; X was cut from the table with the feature
\* list of this run
train_fit(at, FitIt(_, _, _), next) ==
    /\ pc["train"] = at
    /\ predictor' = FitIt(predictor, runs, AvailableFeatures(data))
    /\ pc' = [pc EXCEPT !["train"] = next]
    /\ raced' = (raced \/ Reading)
    /\ UNCHANGED << engine, data, predictions, runs, disk,
                    last_analysis_results, last, task, obs >>

train_fit_scaler     == train_fit("fit_scaler", FitScaler, "fit_regressor")
train_fit_regressor  == train_fit("fit_regressor", FitRegressor, "fit_classifier")
train_fit_classifier == train_fit("fit_classifier", FitClassifier, "set_trained")

\* self.is_trained = True and the response
train_end ==
    /\ pc["train"] = "set_trained"
    /\ predictor' = SetTrained(predictor)
    /\ pc' = [pc EXCEPT !["train"] = "idle"]
    /\ last' = Last("models_train", NoBody,
                    [ kind             |-> "trained",
                      training_samples |-> TrainSamples(data.rows),
                      test_samples     |-> TestSamples(data.rows),
                      features_used    |-> predictor.feature_columns ],
                    200, Self)
    /\ UNCHANGED << engine, data, predictions, runs, disk,
                    last_analysis_results, task, obs, raced >>

\* POST /analyze/predict_task: get_json, the 400 answer, and the check of
\* line 191.  From InitRace is_trained stays True, so the training branch
\* of lines 192-194 is not taken.
predict_begin ==
    /\ pc["predict"] = "idle"
    /\ predictor.is_trained
    /\ \E body \in RaceBodies :
         IF Falsy(body)
         THEN /\ last' = Last("predict_task", body,
                              ErrorResult("No task data provided"), 400, Self)
              /\ UNCHANGED << pc, task >>
         ELSE /\ pc' = [pc EXCEPT !["predict"] = "check"]
              /\ task' = body.obj
              /\ last' = last
    /\ UNCHANGED << engine, data, predictions, predictor, runs, disk,
                    last_analysis_results, obs, raced >>

\* predict_task_delay: "if not self.is_trained"
predict_check ==
    /\ pc["predict"] = "check"
    /\ IF ~ predictor.is_trained
       THEN /\ pc' = [pc EXCEPT !["predict"] = "idle"]
            /\ last' = Last("predict_task", [present |-> TRUE, obj |-> task],
                            ErrorResult("Model not trained yet"), 200, Self)
       ELSE /\ pc' = [pc EXCEPT !["predict"] = "read_columns"]
            /\ last' = last
    /\ obs' = NothingRead
    /\ raced' = Training
    /\ UNCHANGED << engine, data, predictions, predictor, runs, disk,
                    last_analysis_results, task >>

\* one read of the shared predictor by predict_task_delay
predict_read(at, field, value, next) ==
    /\ pc["predict"] = at
    /\ obs' = [obs EXCEPT ![field] = value]
    /\ pc' = [pc EXCEPT !["predict"] = next]
    /\ UNCHANGED << engine, data, predictions, predictor, runs, disk,
                    last_analysis_results, last, task, raced >>

\* for feature in self.feature_columns
predict_read_columns ==
    predict_read("read_columns", "feature_columns",
                 predictor.feature_columns, "read_scaler")
\* self.scaler.transform([features])
predict_read_scaler ==
    predict_read("read_scaler", "scaler", predictor.scaler, "read_regressor")
\* self.duration_predictor.predict(features_scaled)
predict_read_regressor ==
    predict_read("read_regressor", "regressor",
                 predictor.duration_predictor, "read_classifier")
\* self.delay_classifier.predict(features_scaled)
predict_read_classifier ==
    predict_read("read_classifier", "classifier",
                 predictor.delay_classifier, "read_proba")
\* self.delay_classifier.predict_proba(features_scaled)
predict_read_proba ==
    predict_read("read_proba", "proba", predictor.delay_classifier, "respond")

\* the dict returned and the response
predict_end ==
    /\ pc["predict"] = "respond"
    /\ \E r \in {Prediction(obs.feature_columns, obs.scaler, obs.regressor,
                            obs.classifier, obs.proba, task)} :
         last' = [Last("predict_task", [present |-> TRUE, obj |-> task], r,
                       IF r.kind = "raised" THEN 500 ELSE 200, Self)
                    EXCEPT !.predict_calls = 1]
    /\ pc' = [pc EXCEPT !["predict"] = "idle"]
    /\ UNCHANGED << engine, data, predictions, predictor, runs, disk,
                    last_analysis_results, task, obs, raced >>

NextRace ==
    \/ train_begin
    \/ train_fit_scaler
    \/ train_fit_regressor
    \/ train_fit_classifier
    \/ train_end
    \/ predict_begin
    \/ predict_check
    \/ predict_read_columns
    \/ predict_read_scaler
    \/ predict_read_regressor
    \/ predict_read_classifier
    \/ predict_read_proba
    \/ predict_end

SpecRace == InitRace /\ [][NextRace]_vars

(* ------------- two requests that train, on the threaded server ---------- *)

\* two request threads of app.run(threaded=True)
Workers == {"w1", "w2"}

\* the routes that call train_prediction_models: /analyze/predict_task
\* when is_trained is false, /models/train always
TrainingRoutes == {"predict_task", "models_train"}

\* what a request thread holds: its route, the feature list and the number
\* of its training run, and what train_prediction_models returned to it
NoRequest == [route |-> "none", run |-> 0, cols |-> << >>, trained |-> "none"]

\* the body of the predict_task requests
WorkerBody == [k \in {"estimated_hours"} |-> 1]

\* main(): load_all_data() and train_prediction_models(), then
\* run_server(); the server starts untrained when either failed
InitTrainers ==
    /\ engine \in {connect_to_database(f) : f \in BOOLEAN}
    /\ \E env \in Envs :
         \E R \in { train_prediction_models(
                       load_all_data(Runner(NoData, 0, NewPredictor, 0),
                                     engine, env).R).R } :
             /\ data = R.data
             /\ predictor = R.predictor
             /\ runs = R.runs
    /\ predictions = 0
    /\ disk = EmptyDisk
    /\ last_analysis_results = NoResult
    /\ last = [op |-> "init", body |-> NoBody, result |-> NoResult, status |-> 0,
               train_calls |-> 0, predict_calls |-> 0]
    /\ pc = [w \in Workers |-> "idle"]
    /\ task = WorkerBody
    /\ obs = [w \in Workers |-> NoRequest]
    /\ raced = FALSE

\* the scaler or an estimator of the shared predictor is being fitted by
\* this thread, or is about to be: lines 139-158 of train_models
Fitting(w) ==
    pc[w] \in {"fit_scaler", "fit_regressor", "fit_classifier", "set_trained"}

\* a request arrives: "if not self.analysis_runner.predictor.is_trained" of
\* predict_single_task; /models/train has no such check
request_begin(w) ==
    /\ pc[w] = "idle"
    /\ \E route \in TrainingRoutes :
         /\ obs' = [obs EXCEPT ![w] = [NoRequest EXCEPT !.route = route]]
         /\ pc' = [pc EXCEPT ![w] =
                     IF route = "predict_task" /\ predictor.is_trained
                     THEN "respond" ELSE "ensure_data"]
    /\ UNCHANGED << engine, data, predictions, predictor, runs, disk,
                    last_analysis_results, last, task, raced >>

\* "if not self.analysis_runner.data: self.analysis_runner.load_all_data()"
request_ensure_data(w) ==
    /\ pc[w] = "ensure_data"
    /\ \E env \in EnvsIfLoading(~ data.loaded) :
         data' = EnsureData(Self, env).data
    /\ pc' = [pc EXCEPT ![w] = "train_begin"]
    /\ UNCHANGED << engine, predictions, predictor, runs, disk,
                    last_analysis_results, last, task, obs, raced >>

\* train_prediction_models and train_models up to line 130: no data, the
\* assignment of feature_columns and the two early returns
trainer_begin(w) ==
    /\ pc[w] = "train_begin"
    /\ IF ~ data.loaded
       THEN /\ pc' = [pc EXCEPT ![w] = "respond"]
            /\ obs' = [obs EXCEPT ![w].trained = "error"]
            /\ UNCHANGED << predictor, runs >>
       ELSE \E cols \in {AvailableFeatures(data)} :
              /\ predictor' = AssignFeatureColumns(predictor, cols)
              /\ IF cols = << >> \/ TooFewRows(data.rows)
                 THEN /\ pc' = [pc EXCEPT ![w] = "respond"]
                      /\ obs' = [obs EXCEPT ![w].trained = "error"]
                      /\ runs' = runs
                 ELSE /\ runs < MaxRuns
                      /\ pc' = [pc EXCEPT ![w] = "fit_scaler"]
                      /\ obs' = [obs EXCEPT ![w].run = runs + 1,
                                            ![w].cols = cols]
                      /\ runs' = runs + 1
    /\ UNCHANGED << engine, data, predictions, disk, last_analysis_results,
                    last, task, raced >>

\* self.scaler.fit_transform(X_train)
trainer_fit_scaler(w) ==
    /\ pc[w] = "fit_scaler"
    /\ predictor' = FitScaler(predictor, obs[w].run, obs[w].cols)
    /\ pc' = [pc EXCEPT ![w] = "fit_regressor"]
    /\ UNCHANGED << engine, data, predictions, runs, disk,
                    last_analysis_results, last, task, obs, raced >>

\* self.duration_predictor.fit(X_train_scaled, y_delay_train)
trainer_fit_regressor(w) ==
    /\ pc[w] = "fit_regressor"
    /\ predictor' = FitRegressor(predictor, obs[w].run, obs[w].cols)
    /\ pc' = [pc EXCEPT ![w] = "fit_classifier"]
    /\ UNCHANGED << engine, data, predictions, runs, disk,
                    last_analysis_results, last, task, obs, raced >>

\* self.delay_classifier.fit(X_train_scaled, y_cat_train)
trainer_fit_classifier(w) ==
    /\ pc[w] = "fit_classifier"
    /\ predictor' = FitClassifier(predictor, obs[w].run, obs[w].cols)
    /\ pc' = [pc EXCEPT ![w] = "set_trained"]
    /\ UNCHANGED << engine, data, predictions, runs, disk,
                    last_analysis_results, last, task, obs, raced >>

\* self.is_trained = True
trainer_end(w) ==
    /\ pc[w] = "set_trained"
    /\ predictor' = SetTrained(predictor)
    /\ pc' = [pc EXCEPT ![w] = "respond"]
    /\ obs' = [obs EXCEPT ![w].trained = "trained"]
    /\ UNCHANGED << engine, data, predictions, runs, disk,
                    last_analysis_results, last, task, raced >>

\* the response: the prediction of predict_single_task, or the training
\* results of /models/train
request_end(w) ==
    /\ pc[w] = "respond"
    /\ IF obs[w].route = "predict_task"
       THEN \E pr \in {predict_task_delay(predictor, task)} :
              last' = Last("predict_task", [present |-> TRUE, obj |-> task],
                           pr.result,
                           IF pr.result.kind = "raised" THEN 500 ELSE 200, Self)
       ELSE last' = Last("models_train", NoBody,
                         [kind |-> obs[w].trained], 200, Self)
    /\ pc' = [pc EXCEPT ![w] = "idle"]
    /\ obs' = [obs EXCEPT ![w] = NoRequest]
    /\ UNCHANGED << engine, data, predictions, predictor, runs, disk,
                    last_analysis_results, task, raced >>

NextTrainers ==
    \E w \in Workers :
        \/ request_begin(w)
        \/ request_ensure_data(w)
        \/ trainer_begin(w)
        \/ trainer_fit_scaler(w)
        \/ trainer_fit_regressor(w)
        \/ trainer_fit_classifier(w)
        \/ trainer_end(w)
        \/ request_end(w)

SpecTrainers == InitTrainers /\ [][NextTrainers]_vars

(* ------------------------------ properties ------------------------------ *)

NotTrainedYet == ErrorResult("Model not trained yet")

\* C1: predict_task_delay called on a predictor whose is_trained is false
\* returns {"error": "Model not trained yet"} for every input dict, raises
\* nothing, and leaves the scaler and both estimators as they were.
C1_UntrainedPredictReturnsError ==
    [][ (last'.op = "predict_task_delay" /\ ~ predictor.is_trained)
          => /\ last'.result = NotTrainedYet
             /\ predictor'.scaler = predictor.scaler
             /\ predictor'.duration_predictor = predictor.duration_predictor
             /\ predictor'.delay_classifier = predictor.delay_classifier ]_vars

\* an untrained predictor has answered a call that carried a feature
C1_Witness ==
    /\ last.op = "predict_task_delay"
    /\ DOMAIN last.body.obj # {}
    /\ last.result = NotTrainedYet
    /\ ~ predictor.is_trained

AllFitted(p) ==
    p.scaler.run > 0 /\ p.duration_predictor.run > 0 /\ p.delay_classifier.run > 0

\* C2: is_trained is false on a new DelayPredictor; in every state reached
\* by train_models, predict_task_delay, save_models and load_models calls,
\* is_trained implies that the scaler, the regressor and the classifier are
\* all fitted; and a train_models call that returns an error result does
\* not turn is_trained from false to true.
C2_TrainedImpliesFitted ==
    /\ ~ predictor.is_trained
    /\ [](predictor.is_trained => AllFitted(predictor))
    /\ [][ (last'.op = "train_models" /\ last'.result.kind = "error")
             => (predictor'.is_trained => predictor.is_trained) ]_vars

\* load_models has set is_trained on a predictor whose last train_models
\* call returned an error
C2_Witness ==
    /\ last.op = "load_models"
    /\ predictor.is_trained
    /\ AllFitted(predictor)
    /\ disk.scaler # NoFile

\* C3: every predict_task_delay call, answered with a prediction or with
\* an error, leaves scaler, regressor, classifier, feature_columns and
\* is_trained exactly as they were.
C3_PredictChangesNothing ==
    [][ last'.op = "predict_task_delay" => predictor' = predictor ]_vars

\* a trained predictor has answered with a prediction
C3_Witness ==
    /\ last.op = "predict_task_delay"
    /\ last.result.kind = "prediction"
    /\ predictor.is_trained
    /\ predictor.scaler.run > 0

\* the four model reads of one predict_task_delay call saw objects fitted
\* by different training runs
MixedRuns(o) ==
    Cardinality({ o.scaler.run, o.regressor.run, o.classifier.run,
                  o.proba.run }) > 1

\* C4: on the threaded server, with the predictor already trained, a
\* predict_task request that has passed the is_trained check uses a
\* scaler, regressor and classifier that are not all from one training run
\* only when a /models/train request ran while it was in flight; the
\* witness is the interleaving in which that happens.
C4_MixedOnlyByRace ==
    (pc["predict"] \in {"respond", "idle"} /\ MixedRuns(obs)) => raced

\* a prediction was answered from objects of two training runs
C4_Witness ==
    /\ pc["predict"] = "idle"
    /\ last.op = "predict_task"
    /\ last.result.kind = "prediction"
    /\ MixedRuns(obs)
    /\ raced

C6_TenRowsToTrain ==
    [][ last'.op = "train_models" =>
          IF last'.body.rows < 10
          THEN /\ last'.result = ErrorResult("Insufficient training data")
               /\ predictor'.scaler = predictor.scaler
               /\ predictor'.duration_predictor = predictor.duration_predictor
               /\ predictor'.delay_classifier = predictor.delay_classifier
               /\ predictor'.is_trained = predictor.is_trained
               /\ runs' = runs
          ELSE /\ last'.result.kind = "trained"
               /\ runs' = runs + 1
               /\ predictor'.scaler.run = runs'
               /\ predictor'.duration_predictor.run = runs'
               /\ predictor'.delay_classifier.run = runs'
               /\ predictor'.is_trained ]_vars

\* a trained predictor was handed nine rows and kept its fitted objects
C6_Witness ==
    /\ last.op = "train_models"
    /\ last.body.rows = 9
    /\ last.result = ErrorResult("Insufficient training data")
    /\ predictor.is_trained
    /\ predictor.scaler.run = runs

C8_SameDefaultTable ==
    (last.op = "predict_task_delay" /\ last.result.kind = "prediction") =>
        /\ Len(last.result.features) = Len(predictor.feature_columns)
        /\ \A i \in 1..Len(predictor.feature_columns) :
             LET f == predictor.feature_columns[i] IN
               ( /\ f \notin DOMAIN last.body.obj
                 /\ f \in {numeric_columns[j] : j \in 1..Len(numeric_columns)} )
                 => last.result.features[i] = PrepareDefault(f)

\* C9 as stated: a /analyze/predict_task request whose body is a JSON
\* object, the empty object included, is not answered 400 and reaches
\* predict_task_delay.
C9_AnyObjectAccepted ==
    (last.op = "predict_task" /\ last.body.present)
        => (last.status # 400 /\ last.predict_calls = 1)

\* C10 as stated: whatever fails, DataLoader() and
\* get_comprehensive_dataset() raise nothing and the five tables are
\* returned, a table that could not be read being the synthetic one.
C10_LoaderNeverRaises ==
    /\ last.op = "DataLoader" => (~ last.raised /\ engine \in {"None", "engine"})
    /\ last.op = "get_comprehensive_dataset" =>
         /\ ~ last.raised
         /\ data.loaded
         /\ DOMAIN data.src = Tables
         /\ \A t \in Tables :
              data.src[t] = IF engine = "None" \/ t \in last.failed
                            THEN "mock" ELSE "db"

\* the number of rows of the table that are in the scope of the call
InScope(tasks, project_id) ==
    Cardinality({ i \in 1..Len(tasks) :
                    project_id = "None" \/ tasks[i].project_id = project_id })

\* C12: analyze_project_risks with no task in scope (no task of that
\* project, or an empty tasks table) returns {"error": "No tasks found for
\* analysis"}; it returns a summary only when at least one task is in
\* scope, and the summary counts those tasks.
C12_EmptyScopeIsError ==
    last.op = "analyze_project_risks" =>
        IF InScope(last.body, last.project_id) = 0
        THEN last.result = ErrorResult("No tasks found for analysis")
        ELSE /\ last.result.kind = "summary"
             /\ last.result.total_tasks = InScope(last.body, last.project_id)

\* a project that none of the two tasks belongs to was analysed
C12_Witness ==
    /\ last.op = "analyze_project_risks"
    /\ Len(last.body) = 2
    /\ last.project_id = "proj9"
    /\ last.result = ErrorResult("No tasks found for analysis")

\* C13 as stated: high_risk_tasks counts the tasks in scope with
\* risk_score > 70 and critical_tasks lists exactly those with
\* risk_score > 60 or delay_days > 7.
C13_CriticalAboveSeven ==
    (last.op = "analyze_project_risks" /\ last.result.kind = "summary") =>
        LET scoped == label_rows(
                SelectSeq(last.body,
                          LAMBDA r : \/ last.project_id = "None"
                                     \/ r.project_id = last.project_id))
        IN  /\ last.result.high_risk_tasks
                 = Cardinality({ i \in 1..Len(scoped) : scoped[i].risk_score > 700 })
            /\ last.result.critical_tasks
                 = SelectSeq(scoped, LAMBDA r : \/ r.risk_score > 600
                                                \/ r.delay_days > 7)

Filled(dd) == IF dd = NaN THEN 0 ELSE dd

\* C15: create_delay_labels gives no_delay for delay_days <= 1,
\* minor_delay for 1 < delay_days <= 3, major_delay for 3 < delay_days <= 7
\* and critical_delay above 7; 1, 3 and 7 fall into the lower bucket and a
\* missing delay_days counts as 0.
C15_CategoryBins ==
    last.op = "create_delay_labels" =>
        \A i \in 1..Len(last.body) :
            LET d == Filled(last.body[i].delay_days)
            IN  last.result[i].delay_category =
                  CASE d <= 1            -> "no_delay"
                    [] d > 1 /\ d <= 3   -> "minor_delay"
                    [] d > 3 /\ d <= 7   -> "major_delay"
                    [] d > 7             -> "critical_delay"

\* a row at the threshold 7 and a row without delay_days were labelled
C15_Witness ==
    /\ last.op = "create_delay_labels"
    /\ last.body[1].delay_days = 7
    /\ last.result[1].delay_category = "major_delay"
    /\ last.body[2].delay_days = NaN
    /\ last.result[2].delay_category = "no_delay"

Rank(category) ==
    CASE category = "no_delay"       -> 0
      [] category = "minor_delay"    -> 1
      [] category = "major_delay"    -> 2
      [] category = "critical_delay" -> 3

\* C16: for two rows of one table, delay_days a <= b implies
\* rank(category(a)) <= rank(category(b)), and rows with equal delay_days
\* get the same category whatever their other fields are.
C16_CategoryMonotonic ==
    last.op = "create_delay_labels" =>
        \A i, j \in 1..Len(last.body) :
            Filled(last.body[i].delay_days) <= Filled(last.body[j].delay_days)
              => Rank(last.result[i].delay_category)
                   <= Rank(last.result[j].delay_category)

\* two rows that differ in every field, delay_days 2 and 4, were labelled
C16_Witness ==
    /\ last.op = "create_delay_labels"
    /\ last.body[1].delay_days = 2
    /\ last.body[2].delay_days = 4
    /\ last.body[1].priority_numeric # last.body[2].priority_numeric
    /\ last.body[1].progress_ratio # last.body[2].progress_ratio
    /\ Rank(last.result[1].delay_category) < Rank(last.result[2].delay_category)

\* C17 as stated: every task gets a delay_days that is a number >= 0:
\* max(0, completed_date - due_date) in whole days when it has a
\* completed_date, max(0, now - due_date) in whole days otherwise.
C17_DelayDaysNonNegative ==
    last.op = "process_tasks_data" =>
        /\ last.result.delay_days # NaN
        /\ last.result.delay_days >= 0
        /\ last.body.due_date # NaN =>
             LET late == IF last.body.completed_date # NaN
                         THEN last.body.completed_date - last.body.due_date
                         ELSE last.body.now - last.body.due_date
             IN  last.result.delay_days
                   = IF late <= 0 THEN 0 ELSE late \div 2

\* C18: is_delayed is 1 exactly when delay_days > 0, a missing delay_days
\* counting as 0; a task completed on or before its due date gets
\* delay_days 0, delay_category no_delay and is_delayed 0.
C18_IsDelayedIffPositive ==
    /\ last.op = "create_delay_labels" =>
         \A i \in 1..Len(last.body) :
             last.result[i].is_delayed = 1
               <=> (last.body[i].delay_days # NaN /\ last.body[i].delay_days > 0)
    /\ ( /\ last.op = "process_tasks_data"
         /\ last.body.completed_date # NaN
         /\ last.body.due_date # NaN
         /\ last.body.completed_date <= last.body.due_date )
         => /\ last.result.delay_days = 0
            /\ delay_category(last.result.delay_days) = "no_delay"
            /\ is_delayed(last.result.delay_days) = 0

\* a task completed before its due date was processed after the due date
C18_Witness ==
    /\ last.op = "process_tasks_data"
    /\ last.body.completed_date # NaN
    /\ last.body.due_date # NaN
    /\ last.body.completed_date < last.body.due_date
    /\ last.body.now > last.body.due_date + 2
    /\ last.result.delay_days = 0

C20_PredictionRiskClipped ==
    (last.op = "predict_task_delay" /\ last.result.kind = "prediction") =>
        LET r == last.result
            x == 15 * r.predicted_delay_days
        IN  /\ r.predicted_delay_days >= 0
            /\ r.risk_score >= 0
            /\ r.risk_score <= 100
            /\ r.risk_score = IF x < 0 THEN 0 ELSE IF x > 100 THEN 100 ELSE x

\* the regressor put out a negative number of days
C20_Witness ==
    /\ last.op = "predict_task_delay"
    /\ last.result.kind = "prediction"
    /\ last.result.raw_delay_days < 0
    /\ last.result.risk_score = 0


\* C11: run_comprehensive_analysis returns the compiled results with an
\* error entry for every stage (risk, trends, charts, saving the results
\* file) that failed, and returns an error result with no later stage run
\* when loading or training failed
C11_StageFailuresRecorded ==
    last.op = "analyze_full" =>
        /\ last.result.kind = "results" =>
              /\ "risk" \in last.caught
                    => last.result.risk_analysis.kind = "error"
              /\ "trends" \in last.caught
                    => last.result.trends.kind = "error"
              /\ "charts" \in last.caught
                    => last.result.charts_generated.kind = "error"
              /\ "save" \in last.caught
                    => last.result.results_file.kind = "error"
        /\ last.caught \cap {"load", "train"} # {} =>
              /\ last.result.kind = "error"
              /\ last.predict_calls = 0
              /\ last.result.risk_analysis = NoEntry
              /\ last.result.trends = NoEntry
              /\ last.result.charts_generated = NoEntry
              /\ last.result.results_file = NoEntry

\* C14: get_delay_trends on a dataset that the loader returned gives the
\* trend statistics, not an error
C14_TrendsOnLoadedData ==
    (last.op = "analyze_trends" /\ data.loaded) => last.result.kind = "trends"


\* C21: the recommendation is the critical tier for risk_score > 80, else
\* the high tier for risk_score > 60, else the medium tier for
\* risk_score > 40, else the low tier for delay_days > 0, else on track;
\* 80, 60 and 40 fall in the lower tier
C21_RecommendationTiers ==
    last.op = "get_recommendation" =>
        LET r == last.body.risk_score
            d == last.body.delay_days
            tier == last.result.recommendation
        IN  /\ tier \in {"Critical", "High Risk", "Medium Risk",
                          "Low Risk", "On Track"}
            /\ tier = "Critical" <=> r > 80
            /\ tier = "High Risk" <=> (r > 60 /\ r <= 80)
            /\ tier = "Medium Risk" <=> (r > 40 /\ r <= 60)
            /\ tier = "Low Risk" <=> (r <= 40 /\ d > 0)
            /\ tier = "On Track" <=> (r <= 40 /\ d <= 0)

C21_Witness ==
    /\ last.op = "get_recommendation"
    /\ last.body.risk_score = 80
    /\ last.result.recommendation = "High Risk"

\* C22: with actual_hours and estimated_hours both present,
\* progress_ratio = min(actual_hours / estimated_hours, 2.0) and so is
\* never above 2.0
C22_ProgressRatioFormula ==
    ( /\ last.op = "progress_ratio"
      /\ last.body.actual_hours # NaN
      /\ last.body.estimated_hours # NaN
      /\ last.body.estimated_hours > 0 ) =>
        /\ last.result.progress_ratio <= Tenths(2)
        /\ last.result.progress_ratio
             = Min2((last.body.actual_hours * 10)
                      \div last.body.estimated_hours, Tenths(2))


\* C23: every canonical feature column of the table prepare_features
\* returns is free of null cells
C23_NoNullCells ==
    last.op = "prepare_features" =>
        \A i \in 1..Len(last.result) : last.result[i] # NaN


\* C24: a train_models call that returns an error on a trained predictor
\* leaves feature_columns, scaler, estimators and is_trained as they were,
\* so a predict_task_delay call answers afterwards as it did before
C24_FailedTrainingChangesNothing ==
    [][ ( /\ last'.op = "train_models"
          /\ last'.result.kind = "error"
          /\ predictor.is_trained )
        => /\ predictor' = predictor
           /\ \A o \in JsonObjects \cup {EmptyObject} :
                  predict_task_delay(predictor', o).result
                    = predict_task_delay(predictor, o).result ]_vars

\* the feature list the scaler and both estimators were fitted on
FittedOn(p, cols) ==
    p.scaler.cols = cols /\ p.duration_predictor.cols = cols
      /\ p.delay_classifier.cols = cols

\* C25: whenever is_trained is true, feature_columns is the feature list
\* the scaler and the estimators were fitted on
C25_FeatureColumnsMatchFit ==
    predictor.is_trained => FittedOn(predictor, predictor.feature_columns)


\* C26: at most one request thread at a time is fitting the scaler and the
\* estimators of the shared predictor
C26_OneTrainingAtATime ==
    Cardinality({ w \in Workers : Fitting(w) }) <= 1


\* C27: the five tables of a dataset that get_comprehensive_dataset
\* returned all come from the database or are all synthetic
C27_OneSource ==
    (last.op = "get_comprehensive_dataset" /\ ~ last.raised) =>
        \/ \A t \in Tables : data.src[t] = "db"
        \/ \A t \in Tables : data.src[t] = "mock"


\* C28: only the results of a full analysis that succeeded are stored as
\* the latest results, so /results/latest answers 404 until there is one
\* and those results afterwards; a run that ended in an error result is
\* not answered as a success
C28_LatestIsLastSuccess ==
    /\ last_analysis_results.kind \in {"none", "results"}
    /\ (last.op = "analyze_full" /\ last.result.kind = "error")
          => last.status # 200
    /\ last.op = "results_latest" =>
          /\ last.result = last_analysis_results
          /\ last.status = IF last.result.kind = "results" THEN 200 ELSE 404


\* C29: in every summary of analyze_project_risks, delayed_tasks and
\* high_risk_tasks are at most total_tasks, every task counted as high-risk
\* is listed in critical_tasks, and with a project_id every counted and
\* listed task is of that project
C29_SummaryConsistent ==
    (last.op = "analyze_project_risks" /\ last.result.kind = "summary") =>
        LET r == last.result
        IN  /\ r.delayed_tasks <= r.total_tasks
            /\ r.high_risk_tasks <= r.total_tasks
            /\ r.high_risk_tasks <= Len(r.critical_tasks)
            /\ r.high_risk_tasks
                 = Cardinality({ i \in 1..Len(r.critical_tasks) :
                                   r.critical_tasks[i].risk_score > Tenths(70) })
            /\ r.total_tasks = InScope(last.body, last.project_id)
            /\ \A i \in 1..Len(r.critical_tasks) :
                  \/ last.project_id = "None"
                  \/ r.critical_tasks[i].project_id = last.project_id

\* one project of a table with tasks of two projects was analysed, and its
\* task is high-risk
C29_Witness ==
    /\ last.op = "analyze_project_risks"
    /\ last.project_id = "proj1"
    /\ \E i \in 1..Len(last.body) : last.body[i].project_id = "proj2"
    /\ last.result.kind = "summary"
    /\ last.result.high_risk_tasks = 1
    /\ Len(last.result.critical_tasks) = 1

\* C30: is_delayed = 0 exactly when delay_category = no_delay, for every
\* row that create_delay_labels labels
C30_LabelsAgree ==
    last.op = "create_delay_labels" =>
        \A i \in 1..Len(last.result) :
            last.result[i].is_delayed = 0
              <=> last.result[i].delay_category = "no_delay"

====
